---- MODULE Spec2Model ----
(***************************************************************************)
(* The run table of the Dagster UI (RunTable / RunRow): the multi-select   *)
(* of rows, the persisted tag-pin preference, and the per-row derivations  *)
(* (full tag list, summary tag list, backfill link, re-execution flag).    *)
(*                                                                         *)
(* Encoding of optional values: null/undefined is the empty sequence <<>>, *)
(* a present value v is the one-element sequence <<v>>.                    *)
(***************************************************************************)
EXTENDS Integers, Sequences, FiniteSets, TLC

VARIABLES
  runs,           \* props.runs: the list of RunTableRunFragment records
  filter,         \* props.filter: <<>> when absent, else <<set of filter keys>>
  emptyState,     \* TRUE iff props.emptyState (the empty-view override) is given
  checkedIds,     \* useSelectionReducer state: the set of checked run ids
  lastCheckedId,  \* useSelectionReducer state: <<>> or <<last toggled id>>
  storage,        \* the client-local value stored under 'unpinned-tags'
  showRunTags,    \* per row: the tag dialog is open
  isHovered       \* per row: the pointer is over the row

vars ==
  <<runs, filter, emptyState, checkedIds, lastCheckedId, storage, showRunTags, isHovered>>

----------------------------------------------------------------------------
(* Bounds of the model *)

MaxRuns == 3        \* longest run list of Spec
MaxTags == 2        \* most raw tags on the run of SpecRow
MaxPinTags == 1     \* most raw tags on each run of SpecPins
MaxStored == 2      \* longest list initially found in storage in SpecPins
MaxNavRuns == 2     \* longest run list of SpecNav

----------------------------------------------------------------------------
(* Values *)

Null == <<>>
Some(v) == <<v>>

Backfill == "dagster/backfill"
ParentRunId == "dagster/parent_run_id"
ModeKey == "mode"
DefaultMode == "default"

RunIdPool == <<"r1", "r2", "r3", "r4", "r5">>

Range(s) == {s[i] : i \in 1..Len(s)}

SeqsUpTo(S, n) == UNION {[1..k -> S] : k \in 0..n}

\* Array.prototype.indexOf, 1-based; 0 stands for -1 (not found).
RECURSIVE IndexFrom(_, _, _)
IndexFrom(s, x, i) ==
  IF i > Len(s) THEN 0
  ELSE IF s[i] = x THEN i
  ELSE IndexFrom(s, x, i + 1)

IndexOf(s, x) == IndexFrom(s, x, 1)

----------------------------------------------------------------------------
(* RunTable: the selection (useSelectionReducer) *)

\* Mutant of allIds: the map reads the wrong field
allIdsByPipelineName(rs) == [i \in 1..Len(rs) |-> rs[i].pipelineName]

\* const allIds = runs.map((r) => r.id)
allIds(rs) == [i \in 1..Len(rs) |-> rs[i].id]

Min(a, b) == IF a <= b THEN a ELSE b
Max(a, b) == IF a >= b THEN a ELSE b

\* The ids of ids[lo..hi]
Slice(ids, lo, hi) == {ids[i] : i \in lo..hi}

\* toggleOne(id) of the selection store; range is the shift-click extension:
\* with a last toggled id, every id between it and id, inclusive, in list
\* order, is checked or unchecked.  An unknown id is a no-op.
toggleOne(st, ids, id, checked, range) ==
  LET cur == IndexOf(ids, id)
      last == IF st.lastCheckedId = Null THEN 0 ELSE IndexOf(ids, st.lastCheckedId[1])
      hit == IF range /\ last # 0
               THEN Slice(ids, Min(last, cur), Max(last, cur))
               ELSE {id}
  IN IF cur = 0 THEN st
     ELSE [checkedIds |-> IF checked THEN st.checkedIds \cup hit
                                     ELSE st.checkedIds \ hit,
           lastCheckedId |-> Some(id)]

\* toggleAll(checked) of the selection store.  What it leaves in the
\* last-toggled memory is not fixed: keepLast ranges over both outcomes.
toggleAll(st, ids, checked, keepLast) ==
  [checkedIds |-> IF checked THEN Range(ids) ELSE {},
   lastCheckedId |-> IF keepLast THEN st.lastCheckedId ELSE Null]

selection == [checkedIds |-> checkedIds, lastCheckedId |-> lastCheckedId]

\* Mutant of canTerminateOrDelete: the row's checkbox is always rendered
canTerminateOrDeleteAlways(run) == TRUE

\* run.hasTerminatePermission || run.hasDeletePermission (RunRow's prop)
canTerminateOrDelete(run) == run.hasTerminatePermission \/ run.hasDeletePermission

\* Mutant of canTerminateOrDeleteAny: the delete permission is not looked at
canTerminateAny(rs) == \E i \in 1..Len(rs) : rs[i].hasTerminatePermission

\* runs.some((run) => run.hasTerminatePermission || run.hasDeletePermission)
canTerminateOrDeleteAny(rs) ==
  \E i \in 1..Len(rs) : rs[i].hasTerminatePermission \/ rs[i].hasDeletePermission

\* The header cell holds the bulk-select checkbox (canTerminateOrDeleteAny ? ...)
headerCheckboxShown(rs) == Len(rs) # 0 /\ canTerminateOrDeleteAny(rs)

\* The header checkbox's props
headerChecked(rs, checked) == Cardinality(checked) = Len(rs)
headerIndeterminate(rs, checked) ==
  Cardinality(checked) > 0 /\ Cardinality(checked) # Len(rs)

\* Mutant of selectedFragments: the filter keeps the runs that are not checked
RECURSIVE selectedFragmentsNegated(_, _)
selectedFragmentsNegated(rs, checked) ==
  IF rs = <<>> THEN <<>>
  ELSE IF Head(rs).id \notin checked
    THEN <<Head(rs)>> \o selectedFragmentsNegated(Tail(rs), checked)
    ELSE selectedFragmentsNegated(Tail(rs), checked)

\* const selectedFragments = runs.filter((run) => checkedIds.has(run.id))
RECURSIVE selectedFragments(_, _)
selectedFragments(rs, checked) ==
  IF rs = <<>> THEN <<>>
  ELSE IF Head(rs).id \in checked
    THEN <<Head(rs)>> \o selectedFragments(Tail(rs), checked)
    ELSE selectedFragments(Tail(rs), checked)

----------------------------------------------------------------------------
(* RunTable.content: which view is rendered *)

\* Mutant of anyFilter: an empty filter object counts as a filter
anyFilterTruthy(f) == f # Null

\* const anyFilter = !!Object.keys(filter || {}).length
anyFilter(f) == IF f = Null THEN FALSE ELSE Cardinality(f[1]) # 0

content(rs, f, override) ==
  IF Len(rs) = 0
    THEN IF override THEN "emptyState()"
         ELSE IF anyFilter(f) THEN "No matching runs"
         ELSE "No runs found"
    ELSE "Table"

----------------------------------------------------------------------------
(* RunRow: the tag-pin preference (useStateWithStorage('unpinned-tags')) *)

\* The stored JSON value: absent, a non-array (string, object) or an array.
\* items is what indexOf finds in the value when it is read as it stands:
\* the elements of an array, the text of a string (here the text "team").
StoredArray(items) == [kind |-> "array", items |-> items]
StoredMissing == [kind |-> "missing", items |-> <<>>]
StoredString == [kind |-> "string", items |-> <<"team">>]
StoredObject == [kind |-> "object", items |-> <<>>]

\* Mutant of validate: only a missing value falls back to the empty list
validateNullOnly(value) == IF value.kind # "missing" THEN value.items ELSE <<>>

\* (value) => Array.isArray(value) ? value : []
validate(value) == IF value.kind = "array" THEN value.items ELSE <<>>

\* The hook's state: the validated stored value, read on every render.
unpinnedTagsOf(stored) == validate(stored)

unpinnedTags == unpinnedTagsOf(storage)

RECURSIVE Without(_, _)
Without(s, k) ==
  IF s = <<>> THEN <<>>
  ELSE IF Head(s) # k THEN <<Head(s)>> \o Without(Tail(s), k)
  ELSE Without(Tail(s), k)

RECURSIVE WithoutFirst(_, _)
WithoutFirst(s, k) ==
  IF s = <<>> THEN <<>>
  ELSE IF Head(s) = k THEN Tail(s)
  ELSE <<Head(s)>> \o WithoutFirst(Tail(s), k)

\* Mutant of togglePin: only the first occurrence of the key is removed
togglePinFirstOnly(unpinned, tagKey) ==
  IF IndexOf(unpinned, tagKey) # 0
    THEN WithoutFirst(unpinned, tagKey)
    ELSE Append(unpinned, tagKey)

\* The updater passed to setUnpinnedTags by onToggleTagPin
togglePin(unpinned, tagKey) ==
  IF IndexOf(unpinned, tagKey) # 0
    THEN Without(unpinned, tagKey)
    ELSE Append(unpinned, tagKey)

\* setUnpinnedTags(updater): the updater applied to the validated stored
\* value, the result written back as the stored array.
setUnpinnedTags(stored, tagKey) == StoredArray(togglePin(unpinnedTagsOf(stored), tagKey))

----------------------------------------------------------------------------
(* RunRow: the derivations of one row *)

\* isJob: the run's job found in the resolved repository, else false
RECURSIVE FindPipeline(_, _)
FindPipeline(pipelines, name) ==
  IF pipelines = <<>> THEN Null
  ELSE IF Head(pipelines).name = name THEN Some(Head(pipelines))
  ELSE FindPipeline(Tail(pipelines), name)

isJob(run) ==
  IF run.repo # Null
    THEN LET match == FindPipeline(run.repo[1].pipelines, run.pipelineName)
         IN match # Null /\ match[1].isJob
    ELSE FALSE

\* Mutant of allTags: the mode tag is left out for every run in default mode
allTagsNonDefaultOnly(run) ==
  IF run.mode # DefaultMode
    THEN Append(run.tags, [key |-> ModeKey, value |-> run.mode])
    ELSE run.tags

\* allTags: [...run.tags] plus the synthesized mode tag
allTags(run) ==
  IF (isJob(run) /\ run.mode # DefaultMode) \/ ~isJob(run)
    THEN Append(run.tags, [key |-> ModeKey, value |-> run.mode])
    ELSE run.tags

isPinned(unpinned, key) == IndexOf(unpinned, key) = 0

\* Mutant of allTagsWithPinned: the pin is looked up by the tag's value
allTagsWithPinnedByValue(run, unpinned) ==
  LET all == allTags(run)
  IN [i \in 1..Len(all) |->
        [key |-> all[i].key, value |-> all[i].value,
         pinned |-> isPinned(unpinned, all[i].value)]]

allTagsWithPinned(run, unpinned) ==
  LET all == allTags(run)
  IN [i \in 1..Len(all) |->
        [key |-> all[i].key, value |-> all[i].value,
         pinned |-> isPinned(unpinned, all[i].key)]]

\* Mutant of isReexecution: the run's parentRunId field decides
isReexecutionByField(run) == run.parentRunId # Null

\* run.tags.some((tag) => tag.key === DagsterTag.ParentRunId)
isReexecution(run) == \E i \in 1..Len(run.tags) : run.tags[i].key = ParentRunId

\* allTagsWithPinned.find((tag) => tag.key === DagsterTag.Backfill)
RECURSIVE FindKey(_, _)
FindKey(tags, key) ==
  IF tags = <<>> THEN Null
  ELSE IF Head(tags).key = key THEN Some(Head(tags))
  ELSE FindKey(Tail(tags), key)

targetBackfill(run, unpinned) == FindKey(allTagsWithPinned(run, unpinned), Backfill)

\* runsPathWithFilters([{token, value}])
runsPathWithFilters(token, value) == "/runs?" \o token \o "=" \o value

backfillPath(value) == "/overview/backfills/" \o value

\* Mutant of backfillLink: an empty asset selection counts as a selection
backfillLinkNullCheck(run, value) ==
  IF run.assetSelection # Null
    THEN backfillPath(value)
    ELSE runsPathWithFilters("tag", Backfill \o "=" \o value)

\* run.assetSelection?.length ? backfill detail : filtered run list
backfillLink(run, value) ==
  IF run.assetSelection # Null /\ Len(run.assetSelection[1]) # 0
    THEN backfillPath(value)
    ELSE runsPathWithFilters("tag", Backfill \o "=" \o value)

NoLink == ""

WithLink(tag, link) ==
  [key |-> tag.key, value |-> tag.value, pinned |-> tag.pinned, link |-> link]

\* allTagsWithPinned.forEach(...): tags already added by key are skipped,
\* the others are pushed when their key is not unpinned
RECURSIVE PushPinned(_, _, _, _)
PushPinned(rest, tagKeys, unpinned, tags) ==
  IF rest = <<>> THEN tags
  ELSE IF Head(rest).key \in tagKeys
    THEN PushPinned(Tail(rest), tagKeys, unpinned, tags)
  ELSE IF IndexOf(unpinned, Head(rest).key) = 0
    THEN PushPinned(Tail(rest), tagKeys, unpinned, Append(tags, WithLink(Head(rest), NoLink)))
  ELSE PushPinned(Tail(rest), tagKeys, unpinned, tags)

\* Mutant of tagsToShow: the backfill tag is shown whether pinned or not
tagsToShowBackfillAlways(run, unpinned) ==
  LET target == targetBackfill(run, unpinned)
      shown == target # Null
      first == IF shown
                 THEN <<WithLink(target[1], backfillLink(run, target[1].value))>>
                 ELSE <<>>
      tagKeys == IF shown THEN {Backfill} ELSE {}
  IN PushPinned(allTagsWithPinned(run, unpinned), tagKeys, unpinned, first)

\* Mutant of tagsToShow: the backfill key is not recorded as already added
tagsToShowNoDedupe(run, unpinned) ==
  LET target == targetBackfill(run, unpinned)
      shown == target # Null /\ target[1].pinned
      first == IF shown
                 THEN <<WithLink(target[1], backfillLink(run, target[1].value))>>
                 ELSE <<>>
  IN PushPinned(allTagsWithPinned(run, unpinned), {}, unpinned, first)

tagsToShow(run, unpinned) ==
  LET target == targetBackfill(run, unpinned)
      shown == target # Null /\ target[1].pinned
      first == IF shown
                 THEN <<WithLink(target[1], backfillLink(run, target[1].value))>>
                 ELSE <<>>
      tagKeys == IF shown THEN {Backfill} ELSE {}
  IN PushPinned(allTagsWithPinned(run, unpinned), tagKeys, unpinned, first)

\* isHiddenAssetGroupJob(run.pipelineName): decided outside this component by
\* the job's name; HiddenJobName is the one name of the inputs it holds for.
HiddenJobName == "__ASSET_JOB"

isHiddenAssetGroupJob(pipelineName) == pipelineName = HiddenJobName

\* workspacePipelinePath({repoName, repoLocation, pipelineName, isJob})
workspacePipelinePath(repoName, repoLocation, pipelineName, job) ==
  "/locations/" \o repoName \o "@" \o repoLocation
    \o (IF job THEN "/jobs/" ELSE "/pipelines/") \o pipelineName

\* workspacePipelinePathGuessRepo(pipelineName)
workspacePipelinePathGuessRepo(pipelineName) == "/guess/" \o pipelineName

\* Mutant of jobLink: no fallback when the repository is not resolved
jobLinkWithoutFallback(run) ==
  IF run.repo # Null
    THEN workspacePipelinePath(run.repo[1].name, run.repo[1].location,
                               run.pipelineName, isJob(run))
    ELSE NoLink

\* The `to` of the job's Link: repo ? workspacePipelinePath(...) : guess
jobLink(run) ==
  IF run.repo # Null
    THEN workspacePipelinePath(run.repo[1].name, run.repo[1].location,
                               run.pipelineName, isJob(run))
    ELSE workspacePipelinePathGuessRepo(run.pipelineName)

\* The target cell: the asset keys of a hidden asset-group job, else the
\* pipeline reference with the job's link
targetCell(run) ==
  IF isHiddenAssetGroupJob(run.pipelineName)
    THEN [shows |-> "AssetKeyTagCollection", link |-> NoLink]
    ELSE [shows |-> "PipelineReference", link |-> jobLink(run)]

----------------------------------------------------------------------------
(* The inputs: run lists, props and stored values *)

PipelineName == "etl"

Run(id, tags, mode, assets, repo, parent, term, del) ==
  [id |-> id, tags |-> tags, mode |-> mode, assetSelection |-> assets,
   repo |-> repo, pipelineName |-> PipelineName, parentRunId |-> parent,
   hasTerminatePermission |-> term, hasDeletePermission |-> del]

\* useRepositoryForRunWithoutSnapshot(run): no repository, or one whose
\* pipelines hold the run's job, the run's (non-job) pipeline, or neither.
Repo(pipelines) == Some([name |-> "repo", location |-> "loc", pipelines |-> pipelines])

Repos ==
  {Null,
   Repo(<<[name |-> PipelineName, isJob |-> TRUE]>>),
   Repo(<<[name |-> PipelineName, isJob |-> FALSE]>>),
   Repo(<<[name |-> "other", isJob |-> TRUE]>>)}

Modes == {DefaultMode, "prod"}

AssetSelections == {Null, Some(<<>>), Some(<<"asset">>)}

TagPool ==
  {[key |-> Backfill, value |-> "bf1"], [key |-> Backfill, value |-> "bf2"],
   [key |-> ParentRunId, value |-> "r0"], [key |-> "team", value |-> "x"]}

PinTagPool == {[key |-> Backfill, value |-> "bf1"], [key |-> "team", value |-> "x"]}

StoreKeys == {"team", "foreign"}

Filters == {Null, Some({}), Some({"pipelineName"})}

\* <<hasTerminatePermission, hasDeletePermission>>: neither, or either one
Permissions == {<<FALSE, FALSE>>, <<TRUE, FALSE>>, <<FALSE, TRUE>>}

\* Run lists of Spec: up to MaxRuns runs with distinct ids, any permissions
TableRuns ==
  UNION {
    {[i \in 1..n |-> Run(RunIdPool[i], <<>>, DefaultMode, Null, Null, Null,
                         perm[i][1], perm[i][2])] :
       perm \in [1..n -> Permissions]} :
    n \in 0..MaxRuns}

\* The run of SpecRow: any tags, mode, asset selection, repository, parent
RowRuns ==
  {<<Run(RunIdPool[1], tags, mode, assets, repo, parent, TRUE, FALSE)>> :
     tags \in SeqsUpTo(TagPool, MaxTags), mode \in Modes,
     assets \in AssetSelections, repo \in Repos, parent \in {Null, Some("r0")}}

\* Runs of a hidden asset-group job, with or without a resolved repository
HiddenJobRuns ==
  {<<[Run(RunIdPool[1], <<>>, mode, Null, repo, Null, TRUE, FALSE)
        EXCEPT !.pipelineName = HiddenJobName]>> :
     mode \in Modes, repo \in Repos}

\* The two runs of SpecPins
PinRun(id, tags, hasRepo) ==
  Run(id, tags, DefaultMode, Null,
      IF hasRepo THEN Repo(<<[name |-> PipelineName, isJob |-> TRUE]>>) ELSE Null,
      Null, TRUE, TRUE)

PinRuns ==
  {<<PinRun(RunIdPool[1], t1, FALSE), PinRun(RunIdPool[2], t2, j2)>> :
     t1 \in SeqsUpTo(PinTagPool, MaxPinTags), t2 \in SeqsUpTo(PinTagPool, MaxPinTags),
     j2 \in BOOLEAN}

StoredValues ==
  {StoredMissing, StoredString, StoredObject}
    \cup {StoredArray(items) : items \in SeqsUpTo(StoreKeys, MaxStored)}

----------------------------------------------------------------------------
(* Initial states *)

InitSelection ==
  /\ checkedIds = {}
  /\ lastCheckedId = Null

\* useState(false) of showRunTags and of isHovered, in every row
InitRows ==
  /\ showRunTags = [i \in 1..Len(runs) |-> FALSE]
  /\ isHovered = [i \in 1..Len(runs) |-> FALSE]

Init ==
  /\ runs \in TableRuns
  /\ filter \in Filters
  /\ emptyState \in BOOLEAN
  /\ storage = StoredMissing
  /\ InitSelection
  /\ InitRows

InitRow ==
  /\ runs \in RowRuns \cup HiddenJobRuns
  /\ filter = Null
  /\ emptyState = FALSE
  /\ storage = StoredMissing
  /\ InitSelection
  /\ InitRows

InitPins ==
  /\ runs \in PinRuns
  /\ filter = Null
  /\ emptyState = FALSE
  /\ storage \in StoredValues
  /\ InitSelection
  /\ InitRows

----------------------------------------------------------------------------
(* Actions: the event handlers *)

\* The header checkbox's onChange: onToggleAll(e.target.checked).  The
\* checkbox is rendered in the table when some run can be terminated or
\* deleted; a click hands over the negation of its checked prop.
OnToggleAll ==
  /\ Len(runs) # 0
  /\ canTerminateOrDeleteAny(runs)
  /\ \E keepLast \in BOOLEAN :
       LET st == toggleAll(selection, allIds(runs),
                           ~headerChecked(runs, checkedIds), keepLast)
       IN /\ checkedIds' = st.checkedIds
          /\ lastCheckedId' = st.lastCheckedId
  /\ UNCHANGED <<runs, filter, emptyState, storage, showRunTags, isHovered>>

\* RunBulkActionsMenu's clearSelection: () => onToggleAll(false)
ClearSelection ==
  /\ \E keepLast \in BOOLEAN :
       LET st == toggleAll(selection, allIds(runs), FALSE, keepLast)
       IN /\ checkedIds' = st.checkedIds
          /\ lastCheckedId' = st.lastCheckedId
  /\ UNCHANGED <<runs, filter, emptyState, storage, showRunTags, isHovered>>

\* Mutant of OnChange: the shift key is not read from the event
OnChangeWithoutShift(i, shiftKey) ==
  /\ canTerminateOrDelete(runs[i])
  /\ LET st == toggleOne(selection, allIds(runs), runs[i].id,
                         runs[i].id \notin checkedIds, FALSE)
     IN /\ checkedIds' = st.checkedIds
        /\ lastCheckedId' = st.lastCheckedId
  /\ UNCHANGED <<runs, filter, emptyState, storage, showRunTags, isHovered>>

\* RunRow.onChange of row i: onToggleChecked({checked, shiftKey}), with
\* onToggleChecked = onToggleFactory(run.id).  The row's checkbox is
\* rendered when the run can be terminated or deleted.
OnChange(i, shiftKey) ==
  /\ canTerminateOrDelete(runs[i])
  /\ LET st == toggleOne(selection, allIds(runs), runs[i].id,
                         runs[i].id \notin checkedIds, shiftKey)
     IN /\ checkedIds' = st.checkedIds
        /\ lastCheckedId' = st.lastCheckedId
  /\ UNCHANGED <<runs, filter, emptyState, storage, showRunTags, isHovered>>

\* RunRow.onToggleTagPin(tagKey), called by the pin icon of a tag that
\* a row lists (RunTags over tagsToShow or, in the dialog, allTagsWithPinned)
OnToggleTagPin(tagKey) ==
  /\ storage' = setUnpinnedTags(storage, tagKey)
  /\ UNCHANGED <<runs, filter, emptyState, checkedIds, lastCheckedId, showRunTags, isHovered>>

RowKeys(run) == {t.key : t \in Range(allTags(run))}

Next ==
  \/ OnToggleAll
  \/ ClearSelection
  \/ \E i \in 1..Len(runs), shiftKey \in BOOLEAN : OnChange(i, shiftKey)
  \/ \E tagKey \in UNION {RowKeys(runs[i]) : i \in 1..Len(runs)} : OnToggleTagPin(tagKey)

Spec == Init /\ [][Next]_vars

SpecRow == InitRow /\ [][Next]_vars

SpecPins == InitPins /\ [][Next]_vars

----------------------------------------------------------------------------
(* RunRow: the tag dialog, the hover flag, and the render of a row *)

\* Mutant of viewAllShown: the raw tags are counted, not the full tag list
viewAllShownByRawTags(run, unpinned) == Len(run.tags) > Len(tagsToShow(run, unpinned))

\* allTagsWithPinned.length > tagsToShow.length ? <ButtonLink>View all ...
viewAllShown(run, unpinned) ==
  Len(allTagsWithPinned(run, unpinned)) > Len(tagsToShow(run, unpinned))

\* The tags listed in the dialog: <RunTags tags={allTagsWithPinned} ...>
dialogTags(run, unpinned) == allTagsWithPinned(run, unpinned)

\* isHovered && allTagsWithPinned.length ? <ShortcutHandler ...>
shortcutMounted(run, unpinned, hovered) ==
  hovered /\ Len(allTagsWithPinned(run, unpinned)) # 0

\* Mutant of runAfterRender: the mode tag is pushed onto run.tags itself
runAfterRenderPushInPlace(run) == [run EXCEPT !.tags = allTags(run)]

\* The run as a render of its row leaves it: allTags is a copy ([...run.tags])
\* and the mode tag, the pinned flags and the link go to copies ({...tag}).
runAfterRender(run) == [run EXCEPT !.tags = run.tags]

RowFrame == UNCHANGED <<filter, emptyState, checkedIds, lastCheckedId, storage>>

\* A render of row i
Render(i) ==
  /\ runs' = [runs EXCEPT ![i] = runAfterRender(runs[i])]
  /\ RowFrame
  /\ UNCHANGED <<showRunTags, isHovered>>

\* onMouseEnter / onMouseLeave of the row
OnMouseEnter(i) ==
  /\ isHovered' = [isHovered EXCEPT ![i] = TRUE]
  /\ RowFrame
  /\ UNCHANGED <<runs, showRunTags>>

OnMouseLeave(i) ==
  /\ isHovered' = [isHovered EXCEPT ![i] = FALSE]
  /\ RowFrame
  /\ UNCHANGED <<runs, showRunTags>>

\* onClick of "View all N tags": setShowRunTags(true)
OnViewAll(i) ==
  /\ viewAllShown(runs[i], unpinnedTags)
  /\ showRunTags' = [showRunTags EXCEPT ![i] = TRUE]
  /\ RowFrame
  /\ UNCHANGED <<runs, isHovered>>

\* Mutant of OnShortcut: the handler is mounted whether the row is hovered or not
OnShortcutUnhovered(i) ==
  /\ Len(allTagsWithPinned(runs[i], unpinnedTags)) # 0
  /\ showRunTags' = [showRunTags EXCEPT ![i] = ~showRunTags[i]]
  /\ RowFrame
  /\ UNCHANGED <<runs, isHovered>>

\* onShortcut (key T): setShowRunTags((showRunTags) => !showRunTags)
OnShortcut(i) ==
  /\ shortcutMounted(runs[i], unpinnedTags, isHovered[i])
  /\ showRunTags' = [showRunTags EXCEPT ![i] = ~showRunTags[i]]
  /\ RowFrame
  /\ UNCHANGED <<runs, isHovered>>

\* The dialog's onClose (outside click, Escape): setShowRunTags(false)
OnDialogClose(i) ==
  /\ showRunTags[i]
  /\ showRunTags' = [showRunTags EXCEPT ![i] = FALSE]
  /\ RowFrame
  /\ UNCHANGED <<runs, isHovered>>

\* onClick of the dialog's Close button: setShowRunTags(false)
OnCloseButton(i) ==
  /\ showRunTags[i]
  /\ showRunTags' = [showRunTags EXCEPT ![i] = FALSE]
  /\ RowFrame
  /\ UNCHANGED <<runs, isHovered>>

\* The pin icon of a tag that row i lists: in its summary (tagsToShow), or
\* in its dialog (allTagsWithPinned) while the dialog is open
OnRowTogglePin(i, tagKey) ==
  /\ \/ tagKey \in {t.key : t \in Range(tagsToShow(runs[i], unpinnedTags))}
     \/ showRunTags[i] /\ tagKey \in {t.key : t \in Range(dialogTags(runs[i], unpinnedTags))}
  /\ OnToggleTagPin(tagKey)

\* The two runs of SpecRows: the first with raw tags, the second with none
RowsRuns ==
  {<<PinRun(RunIdPool[1], t1, FALSE), PinRun(RunIdPool[2], <<>>, j2)>> :
     t1 \in SeqsUpTo(PinTagPool, MaxPinTags), j2 \in BOOLEAN}

InitRowsSpec ==
  /\ runs \in RowsRuns
  /\ filter = Null
  /\ emptyState = FALSE
  /\ storage = StoredMissing
  /\ InitSelection
  /\ InitRows

NextRows ==
  \/ OnToggleAll
  \/ ClearSelection
  \/ \E i \in 1..Len(runs), shiftKey \in BOOLEAN : OnChange(i, shiftKey)
  \/ \E i \in 1..Len(runs) : \E tagKey \in RowKeys(runs[i]) : OnRowTogglePin(i, tagKey)
  \/ \E i \in 1..Len(runs) : Render(i)
  \/ \E i \in 1..Len(runs) : OnMouseEnter(i)
  \/ \E i \in 1..Len(runs) : OnMouseLeave(i)
  \/ \E i \in 1..Len(runs) : OnViewAll(i)
  \/ \E i \in 1..Len(runs) : OnShortcut(i)
  \/ \E i \in 1..Len(runs) : OnDialogClose(i)
  \/ \E i \in 1..Len(runs) : OnCloseButton(i)

SpecRows == InitRowsSpec /\ [][NextRows]_vars

----------------------------------------------------------------------------
(* RunTable: a new run list from the parent *)

NavIds == {"r1", "r2", "r3"}

\* Run lists of SpecNav: distinct ids in any order, with or without permission
NavRuns ==
  UNION {
    {[i \in 1..n |-> Run(ids[i], <<>>, DefaultMode, Null, Null, Null, perm[i], FALSE)] :
       ids \in {f \in [1..n -> NavIds] : \A a, b \in 1..n : a # b => f[a] # f[b]},
       perm \in [1..n -> BOOLEAN]} :
    n \in 0..MaxNavRuns}

\* The selection store given a list of ids that is not the one it held: the
\* selection is reset; with the same ids it is kept.
selectionFor(st, oldIds, newIds) ==
  IF newIds = oldIds THEN st ELSE [checkedIds |-> {}, lastCheckedId |-> Null]

\* props.runs changes: useSelectionReducer(allIds) with the new list's ids;
\* the rows are those of the new list.
OnRunsChange(newRuns) ==
  /\ newRuns # runs
  /\ runs' = newRuns
  /\ LET st == selectionFor(selection, allIds(runs), allIds(newRuns))
     IN /\ checkedIds' = st.checkedIds
        /\ lastCheckedId' = st.lastCheckedId
  /\ showRunTags' = [i \in 1..Len(newRuns) |-> FALSE]
  /\ isHovered' = [i \in 1..Len(newRuns) |-> FALSE]
  /\ UNCHANGED <<filter, emptyState, storage>>

InitNav ==
  /\ runs \in NavRuns
  /\ filter = Null
  /\ emptyState = FALSE
  /\ storage = StoredMissing
  /\ InitSelection
  /\ InitRows

NextNav ==
  \/ Next
  \/ \E newRuns \in NavRuns : OnRunsChange(newRuns)

SpecNav == InitNav /\ [][NextNav]_vars

----------------------------------------------------------------------------
(* Properties of the selection *)

\* C1: a step of toggleAll(true) leaves the checked set with as many ids as
\* the list has runs; a step of toggleAll(false), from the header checkbox
\* or as the bulk menu's clearSelection, leaves the checked set empty.
C1_ToggleAll ==
  [][/\ (OnToggleAll /\ ~headerChecked(runs, checkedIds))
          => Cardinality(checkedIds') = Len(runs)
     /\ (OnToggleAll /\ headerChecked(runs, checkedIds)) => checkedIds' = {}
     /\ ClearSelection => checkedIds' = {}]_vars

\* Every run is checked, one of them without permission, and no single
\* toggle was the last selection step: toggleAll(true) has acted.
C1_Witness ==
  /\ Len(runs) = MaxRuns
  /\ Cardinality(checkedIds) = Len(runs)
  /\ lastCheckedId = Null
  /\ \E i \in 1..Len(runs) : ~canTerminateOrDelete(runs[i])

Position(id) == CHOOSE i \in 1..Len(runs) : runs[i].id = id

Between(j, a, b) == (a <= j /\ j <= b) \/ (b <= j /\ j <= a)

\* C2: a shift-click on row i with a last toggled id sets exactly the rows
\* between the two, inclusive, to the new value and leaves the others as
\* they were; applying the same range toggle again, with the same endpoints
\* or as the next event, gives the same checked set.
C2_RangeToggle ==
  [][\A i \in 1..Len(runs) :
       (OnChange(i, TRUE) /\ lastCheckedId # Null) =>
         LET last == Position(lastCheckedId[1])
             checked == runs[i].id \notin checkedIds
             once == [checkedIds |-> checkedIds', lastCheckedId |-> lastCheckedId']
             sameEnds == [checkedIds |-> checkedIds', lastCheckedId |-> lastCheckedId]
         IN /\ \A j \in 1..Len(runs) :
                 (runs[j].id \in checkedIds') =
                   IF Between(j, last, i) THEN checked ELSE runs[j].id \in checkedIds
            /\ toggleOne(sameEnds, allIds(runs), runs[i].id, checked, TRUE).checkedIds
                 = checkedIds'
            /\ toggleOne(once, allIds(runs), runs[i].id, checked, TRUE).checkedIds
                 = checkedIds']_vars

\* A range toggle has checked the first and the last run, and with them a
\* run in between that has no checkbox of its own.
C2_Witness ==
  /\ Len(runs) = MaxRuns
  /\ Cardinality(checkedIds) = Len(runs)
  /\ lastCheckedId # Null
  /\ \E i \in 2..(Len(runs) - 1) : ~canTerminateOrDelete(runs[i])

HasPermission(i) == runs[i].hasTerminatePermission \/ runs[i].hasDeletePermission

\* C12: for a non-empty list the header checkbox is there, and can be
\* clicked, iff some run grants terminate or delete permission; it is checked
\* iff as many ids are checked as the list has runs, indeterminate iff some
\* but not that many are, and any checked set of the same size gives the same.
C12_HeaderCheckbox ==
  Len(runs) # 0 =>
    /\ headerCheckboxShown(runs) <=> \E i \in 1..Len(runs) : HasPermission(i)
    /\ (ENABLED OnToggleAll) <=> \E i \in 1..Len(runs) : HasPermission(i)
    /\ headerChecked(runs, checkedIds) <=> Cardinality(checkedIds) = Len(runs)
    /\ headerIndeterminate(runs, checkedIds)
         <=> (Cardinality(checkedIds) > 0 /\ Cardinality(checkedIds) # Len(runs))
    /\ \A other \in SUBSET Range(allIds(runs)) :
         Cardinality(other) = Cardinality(checkedIds) =>
           /\ headerChecked(runs, other) = headerChecked(runs, checkedIds)
           /\ headerIndeterminate(runs, other) = headerIndeterminate(runs, checkedIds)

\* The only permission in the list is a delete permission, and the header
\* checkbox is indeterminate after a toggle.
C12_Witness ==
  /\ Len(runs) = MaxRuns
  /\ \A i \in 1..Len(runs) : ~runs[i].hasTerminatePermission
  /\ \E i \in 1..Len(runs) : runs[i].hasDeletePermission
  /\ headerIndeterminate(runs, checkedIds)
  /\ lastCheckedId # Null

\* C17: on a fixed list the checked set holds ids of runs of the list only,
\* and the selection handed to the bulk actions menu is the runs of the list
\* whose id is checked, in list order.
C17_SelectionWithinList ==
  /\ checkedIds \subseteq {runs[i].id : i \in 1..Len(runs)}
  /\ selectedFragments(runs, checkedIds) = SelectSeq(runs, LAMBDA r : r.id \in checkedIds)
  /\ Len(selectedFragments(runs, checkedIds)) = Cardinality(checkedIds)

\* The first and the last run are checked and one between them is not.
C17_Witness ==
  /\ Len(runs) = MaxRuns
  /\ runs[1].id \in checkedIds
  /\ runs[Len(runs)].id \in checkedIds
  /\ \E i \in 2..(Len(runs) - 1) : runs[i].id \notin checkedIds
  /\ lastCheckedId # Null

\* C19: a run that grants neither permission has no checkbox of its own: its
\* row toggle is never enabled, and a step that checks it is toggleAll(true)
\* or a range toggle of another row whose range spans it.
C19_NoOwnToggle ==
  [][\A i \in 1..Len(runs) :
       ~HasPermission(i) =>
         /\ \A shiftKey \in BOOLEAN : ~OnChange(i, shiftKey)
         /\ (runs[i].id \notin checkedIds /\ runs[i].id \in checkedIds') =>
              \/ OnToggleAll /\ ~headerChecked(runs, checkedIds)
              \/ \E j \in 1..Len(runs) :
                   /\ j # i
                   /\ OnChange(j, TRUE)
                   /\ lastCheckedId # Null
                   /\ Between(i, Position(lastCheckedId[1]), j)]_vars

\* The middle run has no permission and was checked by a range toggle that
\* ended on the last run, while the first run is unchecked again.
C19_Witness ==
  /\ Len(runs) = MaxRuns
  /\ \E i \in 2..(Len(runs) - 1) : ~HasPermission(i) /\ runs[i].id \in checkedIds
  /\ runs[1].id \notin checkedIds
  /\ lastCheckedId = Some(runs[1].id)

----------------------------------------------------------------------------
(* Properties of the tag-pin preference *)

PinKeys == StoreKeys \cup {Backfill, ModeKey, ParentRunId}

Occurrences(s, k) == Cardinality({i \in 1..Len(s) : s[i] = k})

\* C3: from any unpinned list, also one that holds the key more than once,
\* two calls of togglePin(key) leave isPinned(key) as it was, and neither
\* call changes isPinned of another key.
C3_TogglePinTwice ==
  \A key \in PinKeys :
    LET once == unpinnedTagsOf(setUnpinnedTags(storage, key))
        twice == unpinnedTagsOf(setUnpinnedTags(setUnpinnedTags(storage, key), key))
    IN /\ isPinned(twice, key) = isPinned(unpinnedTags, key)
       /\ \A other \in PinKeys \ {key} :
            /\ isPinned(once, other) = isPinned(unpinnedTags, other)
            /\ isPinned(twice, other) = isPinned(unpinnedTags, other)

\* A toggle has appended to a stored list that holds some key twice.
C3_Witness ==
  /\ Len(unpinnedTags) > MaxStored
  /\ \E key \in PinKeys : Occurrences(unpinnedTags, key) >= 2

\* C4: when togglePin(key) unpins key, the summary tag list of no row holds
\* a tag with that key afterwards.
C4_UnpinHidesEverywhere ==
  [][\A key \in PinKeys :
       (OnToggleTagPin(key) /\ isPinned(unpinnedTags, key)) =>
         \A i \in 1..Len(runs) :
           \A t \in Range(tagsToShow(runs[i], unpinnedTagsOf(storage'))) : t.key # key]_vars

\* Both rows carry the backfill tag, and a toggle has just unpinned its key.
C4_Witness ==
  /\ \A i \in 1..Len(runs) : \E t \in Range(runs[i].tags) : t.key = Backfill
  /\ Len(runs) >= 2
  /\ Len(unpinnedTags) > MaxStored
  /\ unpinnedTags[Len(unpinnedTags)] = Backfill

\* C9: a stored value that is not a list reads as the empty unpinned list,
\* so every tag of every row is pinned and shown, and togglePin(key) from
\* there stores the one-element list of key.
C9_ForeignStoredValue ==
  storage.kind # "array" =>
    /\ unpinnedTags = <<>>
    /\ \A i \in 1..Len(runs) :
         /\ \A t \in Range(allTagsWithPinned(runs[i], unpinnedTags)) : t.pinned
         /\ {t.key : t \in Range(tagsToShow(runs[i], unpinnedTags))} = RowKeys(runs[i])
    /\ \A key \in PinKeys : setUnpinnedTags(storage, key) = StoredArray(<<key>>)

\* The stored value is a string mentioning a key that a rendered row carries,
\* and the table has handled an event since.
C9_Witness ==
  /\ storage = StoredString
  /\ \E i \in 1..Len(runs) : "team" \in RowKeys(runs[i])
  /\ lastCheckedId # Null

\* C10: a tag of a row's full tag list is pinned iff its key is not in the
\* unpinned list, and togglePin(key) removes key from the list if it is there
\* and appends it otherwise.
C10_PinnedByDefault ==
  /\ \A i \in 1..Len(runs) :
       \A t \in Range(allTagsWithPinned(runs[i], unpinnedTags)) :
         t.pinned <=> (t.key \notin Range(unpinnedTags))
  /\ \A key \in PinKeys :
       LET after == unpinnedTagsOf(setUnpinnedTags(storage, key))
       IN IF key \in Range(unpinnedTags)
            THEN after = SelectSeq(unpinnedTags, LAMBDA k : k # key)
            ELSE after = unpinnedTags \o <<key>>

\* A row lists a pinned and an unpinned tag after a toggle.
C10_Witness ==
  /\ Len(unpinnedTags) > MaxStored
  /\ \E i \in 1..Len(runs) :
       LET all == allTagsWithPinned(runs[i], unpinnedTags)
       IN \E a, b \in 1..Len(all) : all[a].pinned /\ ~all[b].pinned

----------------------------------------------------------------------------
(* Properties of the row derivations *)

Shown(i) == tagsToShow(runs[i], unpinnedTags)

Plain(tags) ==
  [k \in 1..Len(tags) |->
     [key |-> tags[k].key, value |-> tags[k].value, pinned |-> tags[k].pinned]]

\* C5: the summary tag list is the first backfill-keyed tag, if there is one
\* and the backfill key is pinned, followed by the pinned tags with another
\* key in the order of the full tag list; it holds no unpinned tag and at
\* most one tag with the backfill key.
C5_TagsToShow ==
  \A i \in 1..Len(runs) :
    LET all == allTagsWithPinned(runs[i], unpinnedTags)
        backfills == SelectSeq(all, LAMBDA t : t.key = Backfill)
        first == IF backfills # <<>> /\ Backfill \notin Range(unpinnedTags)
                   THEN <<backfills[1]>> ELSE <<>>
        others == SelectSeq(all, LAMBDA t :
                              t.key # Backfill /\ t.key \notin Range(unpinnedTags))
    IN /\ Plain(Shown(i)) = first \o others
       /\ \A t \in Range(Shown(i)) : t.key \notin Range(unpinnedTags)
       /\ Cardinality({k \in 1..Len(Shown(i)) : Shown(i)[k].key = Backfill}) <= 1

\* The backfill tag leads the summary though it is not the first tag of the
\* run, and a toggle has hidden another tag.
C5_Witness ==
  /\ unpinnedTags # <<>>
  /\ LET all == allTagsWithPinned(runs[1], unpinnedTags)
     IN /\ all[1].key # Backfill
        /\ Len(Shown(1)) >= 2
        /\ Shown(1)[1].key = Backfill
        /\ Len(all) > Len(Shown(1))

HasAssets(run) == run.assetSelection # Null /\ run.assetSelection # Some(<<>>)

\* C6: a shown backfill tag links to the backfill-detail path ending in the
\* backfill value iff the run's asset selection is non-empty, and otherwise
\* (empty or null selection) to the run list filtered by tag=<key>=<value>.
C6_BackfillLink ==
  \A i \in 1..Len(runs) :
    \A t \in Range(Shown(i)) :
      t.key = Backfill =>
        /\ (t.link = "/overview/backfills/" \o t.value) <=> HasAssets(runs[i])
        /\ ~HasAssets(runs[i]) => t.link = "/runs?tag=dagster/backfill=" \o t.value

\* A backfill tag is shown for a run whose asset selection is the empty list.
C6_Witness ==
  /\ runs[1].assetSelection = Some(<<>>)
  /\ \E t \in Range(Shown(1)) : t.key = Backfill /\ t.link # NoLink

\* C7: a row is a re-execution iff one of the run's raw tags has the parent
\* run id key, whatever the pin state, the run's mode and its parentRunId
\* field are.
C7_IsReexecution ==
  \A i \in 1..Len(runs) :
    /\ isReexecution(runs[i])
         <=> \E k \in 1..Len(runs[i].tags) : runs[i].tags[k].key = "dagster/parent_run_id"
    /\ \A parent \in {Null, Some("r0")}, mode \in Modes :
         isReexecution([runs[i] EXCEPT !.parentRunId = parent, !.mode = mode])
           = isReexecution(runs[i])

\* The run carries the parent tag, its key has been unpinned, and the run's
\* parentRunId field is null.
C7_Witness ==
  /\ isReexecution(runs[1])
  /\ runs[1].parentRunId = Null
  /\ ParentRunId \in Range(unpinnedTags)

\* The run's job is found, as a job, in a resolved repository.
ResolvedJob(run) ==
  /\ run.repo # Null
  /\ \E p \in Range(run.repo[1].pipelines) : p.name = run.pipelineName /\ p.isJob

\* C11: the full tag list is the run's raw tags in order, followed by the one
\* tag {key: "mode", value: run.mode} iff the run is not a job or its mode is
\* not the default mode; without a resolved repository the run is not a job
\* and the mode tag is there.
C11_FullTagList ==
  \A i \in 1..Len(runs) :
    LET all == allTagsWithPinned(runs[i], unpinnedTags)
        raw == runs[i].tags
        withMode == ~ResolvedJob(runs[i]) \/ runs[i].mode # "default"
    IN /\ Len(all) = Len(raw) + (IF withMode THEN 1 ELSE 0)
       /\ \A k \in 1..Len(raw) : all[k].key = raw[k].key /\ all[k].value = raw[k].value
       /\ withMode => all[Len(all)].key = "mode" /\ all[Len(all)].value = runs[i].mode
       /\ runs[i].repo = Null => ~isJob(runs[i]) /\ withMode

\* A run in default mode without a resolved repository, with raw tags.
C11_Witness ==
  /\ runs[1].repo = Null
  /\ runs[1].mode = DefaultMode
  /\ Len(runs[1].tags) = MaxTags
  /\ allTagsWithPinned(runs[1], unpinnedTags)[MaxTags + 1].key = ModeKey
  /\ unpinnedTags # <<>>

\* C15 as stated: a run without a resolved repository has the guessed
\* workspace path of its pipeline name as job link, is not a job, and has
\* its tags and re-execution flag.
C15_Original ==
  \A i \in 1..Len(runs) :
    runs[i].repo = Null =>
      /\ targetCell(runs[i]).link = "/guess/" \o runs[i].pipelineName
      /\ ~isJob(runs[i])

\* C15 as amended: a run without a resolved repository is not a job, has its
\* full tag list (with the mode tag), summary tag list and re-execution flag,
\* and, unless its job is a hidden asset-group job, whose row shows asset keys
\* and no job link, its job link is the guessed workspace path of its
\* pipeline name.
C15_UnresolvedRepository ==
  \A i \in 1..Len(runs) :
    runs[i].repo = Null =>
      /\ IF runs[i].pipelineName = HiddenJobName
           THEN targetCell(runs[i]) = [shows |-> "AssetKeyTagCollection", link |-> NoLink]
           ELSE targetCell(runs[i])
                  = [shows |-> "PipelineReference", link |-> "/guess/" \o runs[i].pipelineName]
      /\ ~isJob(runs[i])
      /\ Len(allTagsWithPinned(runs[i], unpinnedTags)) = Len(runs[i].tags) + 1
      /\ Len(Shown(i)) <= Len(runs[i].tags) + 1
      /\ isReexecution(runs[i]) \in BOOLEAN

\* A re-executed run without a resolved repository, with a tag unpinned.
C15_Witness ==
  /\ runs[1].repo = Null
  /\ runs[1].pipelineName = PipelineName
  /\ isReexecution(runs[1])
  /\ unpinnedTags # <<>>
  /\ targetCell(runs[1]).link # NoLink

----------------------------------------------------------------------------
(* Properties of the rendered view *)

FilterActive == filter # Null /\ filter[1] # {}

\* C8 as stated: with an empty list the view is "No runs found" without a
\* filter and "No matching runs" with one, whatever else is passed.
C8_Original ==
  Len(runs) = 0 =>
    content(runs, filter, emptyState)
      = IF FilterActive THEN "No matching runs" ELSE "No runs found"

\* C8 as amended: with an empty list and no emptyState override the view is
\* "No runs found" without an active filter and "No matching runs" with one;
\* with an override it is the override's output; a non-empty list is the table.
C8_EmptyStates ==
  /\ (Len(runs) = 0 /\ ~emptyState) =>
       content(runs, filter, emptyState)
         = IF FilterActive THEN "No matching runs" ELSE "No runs found"
  /\ (Len(runs) = 0 /\ emptyState) => content(runs, filter, emptyState) = "emptyState()"
  /\ Len(runs) # 0 => content(runs, filter, emptyState) = "Table"

\* An empty list rendered with a filter object that has no keys.
C8_Witness ==
  /\ Len(runs) = 0
  /\ filter = Some({})
  /\ ~emptyState

----------------------------------------------------------------------------
(* Properties of the list identity, the tag dialog and the frame *)

IdsOf(rs) == [i \in 1..Len(rs) |-> rs[i].id]

HasTags(i) == Len(allTags(runs[i])) # 0

\* C14: every row's dialog starts closed; a step changes the dialog of at most
\* one row; the shortcut is available exactly while the row is hovered and has
\* a tag, and it toggles the row's dialog; a dialog opens only through the
\* shortcut or "View all", which opens it; the Close button and the dialog's
\* onClose (outside click, Escape) close it.
C14_RowDialog ==
  /\ \A i \in 1..Len(runs) : ~showRunTags[i]
  /\ [](\A i \in 1..Len(runs) :
          /\ (ENABLED OnShortcut(i)) <=> (isHovered[i] /\ HasTags(i))
          /\ showRunTags[i] => (ENABLED OnDialogClose(i) /\ ENABLED OnCloseButton(i)))
  /\ [][\A i \in 1..Len(runs) :
          /\ showRunTags'[i] # showRunTags[i] =>
               \A j \in 1..Len(runs) : j # i => showRunTags'[j] = showRunTags[j]
          /\ OnShortcut(i) =>
               (isHovered[i] /\ HasTags(i) /\ showRunTags'[i] = ~showRunTags[i])
          /\ OnViewAll(i) => showRunTags'[i]
          /\ OnDialogClose(i) => ~showRunTags'[i]
          /\ OnCloseButton(i) => ~showRunTags'[i]
          /\ (showRunTags'[i] /\ ~showRunTags[i]) =>
               \/ isHovered[i] /\ HasTags(i)
               \/ Len(allTagsWithPinned(runs[i], unpinnedTags))
                    > Len(tagsToShow(runs[i], unpinnedTags))
    ]_vars

\* One row's dialog is open while the other's is closed, the open row is not
\* hovered any more, and the hovered other row has no tag for the shortcut.
C14_Witness ==
  /\ Len(runs) = 2
  /\ showRunTags[1] /\ ~isHovered[1]
  /\ ~showRunTags[2] /\ isHovered[2] /\ ~HasTags(2)

\* C16: no step changes the run list, a run's fields or its raw tags.
C16_RunsUnchanged == [][runs' = runs]_vars

\* Rows were rendered, a tag was unpinned, a run selected and a dialog opened,
\* and a row derives a mode tag that its run does not hold.
C16_Witness ==
  /\ checkedIds # {}
  /\ storage # StoredMissing
  /\ \E i \in 1..Len(runs) : showRunTags[i]
  /\ \E i \in 1..Len(runs) : allTags(runs[i]) # runs[i].tags
  /\ ENABLED (\E i \in 1..Len(runs) : Render(i))

\* Tag k of row i's full list has no entry of its key and value in the summary
HiddenFromSummary(i, k) ==
  LET tag == allTags(runs[i])[k]
  IN ~\E t \in Range(tagsToShow(runs[i], unpinnedTags)) :
        t.key = tag.key /\ t.value = tag.value

\* C18: "View all" is offered iff the full tag list is longer than the
\* summary list; when some tag is hidden from the summary the dialog can be
\* opened; the dialog lists every tag of the full list, in order.
C18_ViewAll ==
  \A i \in 1..Len(runs) :
    LET full == allTags(runs[i])
        listed == dialogTags(runs[i], unpinnedTags)
    IN /\ (ENABLED OnViewAll(i)) <=>
            (Len(full) > Len(tagsToShow(runs[i], unpinnedTags)))
       /\ (\E k \in 1..Len(full) : HiddenFromSummary(i, k)) => ENABLED OnViewAll(i)
       /\ Len(listed) = Len(full)
       /\ \A k \in 1..Len(full) :
            listed[k].key = full[k].key /\ listed[k].value = full[k].value

\* A row whose only tag is the unpinned mode tag has its dialog open.
C18_Witness ==
  \E i \in 1..Len(runs) :
    /\ runs[i].tags = <<>>
    /\ HasTags(i)
    /\ HiddenFromSummary(i, 1)
    /\ showRunTags[i]
    /\ ~dialogTags(runs[i], unpinnedTags)[1].pinned

====
